---- MODULE Spec2Model ----
(***************************************************************************)
(* Model of the GimbalProject control toolkit:                             *)
(*   - PIDController<int>        (Core/Src/PID.cpp)                        *)
(*   - the button event handlers (Core/Src/eventHandler.c)                 *)
(* The controller is modelled for T = int.  The three gains are doubles in *)
(* the source; here a gain g is the integer numerator of g / GainDen, so   *)
(* that the (int) cast of the output sum is an exact truncating division.  *)
(***************************************************************************)
EXTENDS Integers, Sequences, FiniteSets

VARIABLES
  \* ---- PIDController<int> fields (PID.cpp:17-43) ----
  _p, _i, _d,
  target, output, enabled,
  currentFeedback, lastFeedback,
  error, lastError,
  currentTime, lastTime,
  integralCumulation, maxCumulation, cycleDerivative,
  inputBounded, inputLowerBound, inputUpperBound,
  outputBounded, outputLowerBound, outputUpperBound,
  feedbackWrapped, feedbackWrapLowerBound, feedbackWrapUpperBound,
  wrapBoundsWritten,      \* FALSE while the two wrap bounds are still the
                          \* indeterminate values the constructor leaves
  timeFunctionRegistered,
  pidOutputArg,           \* argument of the last _pidOutput(output) call (0: none yet)
  \* ---- eventHandler.c globals and the two CMSIS event-flag groups ----
  prev_time, cur_time,
  setPointButtonEvents, stateMachineEvents,
  modeLog                 \* the modeChangeButton invocations so far:
                          \* <<tick read from HAL_GetTick, flags raised>>

pidVars == << _p, _i, _d, target, output, enabled, currentFeedback, lastFeedback,
              error, lastError, currentTime, lastTime, integralCumulation,
              maxCumulation, cycleDerivative, inputBounded, inputLowerBound,
              inputUpperBound, outputBounded, outputLowerBound, outputUpperBound,
              feedbackWrapped, feedbackWrapLowerBound, feedbackWrapUpperBound,
              wrapBoundsWritten, timeFunctionRegistered, pidOutputArg >>

buttonVars == << prev_time, cur_time, setPointButtonEvents, stateMachineEvents,
                 modeLog >>

vars == << pidVars, buttonVars >>

(***************************************************************************)
(* Bounds of the model.                                                    *)
(***************************************************************************)
MaxTime == 1          \* largest value the registered time source returns
MaxCalls == 3         \* modeChangeButton invocations that are logged
MaxTickUnits == 6     \* HAL ticks range over 0 .. MaxTickUnits * 150 + 2
CumulationCap == 20   \* SpecWrap360 ticks only while |integralCumulation| <= this

(***************************************************************************)
(* int arithmetic.                                                         *)
(***************************************************************************)
IntMin == -2147483647 - 1

\* C++ integer division truncates toward zero (b # 0).
TruncDiv(a, b) ==
  IF b > 0
    THEN (IF a >= 0 THEN a \div b ELSE -((-a) \div b))
    ELSE (IF a >= 0 THEN -(a \div (-b)) ELSE (-a) \div (-b))

\* (x >= 0) ? x : -x  (PID.cpp:95-97)
AbsInt(x) == IF x >= 0 THEN x ELSE -x

\* The gains are doubles: numerators over GainDen.
GainDen == 2


(***************************************************************************)
(* Values the operations are called with.                                  *)
(***************************************************************************)
Targets == {0, 10000}
Feedbacks == {-10000, 20000}
GainTriples == { <<1, 1, 0>>, <<2, 0, 1>> }        \* (0.5, 0.5, 0), (1, 0, 0.5)
GainValues == {0, 1}                                \* 0, 0.5
MaxArgs == {-30000, -1, 0, 1, 2}
MaxArgsWide == MaxArgs \cup {IntMin, 20000}
InputBoundPairs == { <<0, 10000>>, <<10000, 0>>, <<5, 5>> }
OutputBoundPairs == { <<-100, 100>>, <<100, 50>>, <<7, 7>> }
WrapBoundPairs == { <<0, 20000>>, <<20000, 0>> }
\* what a read of a never-written wrap bound may yield
Garbage == {0, 10000}
\* quotient left by an integer division by zero
DivZeroResults == {-1, 0}

(***************************************************************************)
(* PIDController<int>::PIDController                                       *)
(***************************************************************************)
PIDController(p, i, d) ==
  /\ _p = p /\ _i = i /\ _d = d
  /\ target = 0
  /\ output = 0
  /\ enabled = TRUE
  /\ currentFeedback = 0
  /\ lastFeedback = 0
  /\ error = 0
  /\ lastError = 0
  /\ currentTime = 0
  /\ lastTime = 0
  /\ integralCumulation = 0
  /\ maxCumulation = 30000
  /\ cycleDerivative = 0
  /\ inputBounded = FALSE
  /\ inputLowerBound = 0
  /\ inputUpperBound = 0
  /\ outputBounded = FALSE
  /\ outputLowerBound = 0
  /\ outputUpperBound = 0
  /\ feedbackWrapped = FALSE
  \* feedbackWrapLowerBound / feedbackWrapUpperBound are not assigned by the
  \* constructor: the 0 below is a placeholder that is never read while
  \* wrapBoundsWritten is FALSE (see WrapLowerRead / WrapUpperRead).
  /\ feedbackWrapLowerBound = 0
  /\ feedbackWrapUpperBound = 0
  /\ wrapBoundsWritten = FALSE
  /\ timeFunctionRegistered = FALSE
  /\ pidOutputArg = 0

(***************************************************************************)
(* The steps of PIDController<int>::tick                                   *)
(***************************************************************************)
\* Apply input bounds if necessary (PID.cpp:62-66).
ClampInput(fb, bounded, lo, hi) ==
  IF ~bounded THEN fb
  ELSE LET a == IF fb > hi THEN hi ELSE fb
       IN  IF a < lo THEN lo ELSE a

\* The error under feedback wrapping (PID.cpp:90-111); old is the value
\* error keeps when none of the three branches is taken.
WrappedError(t, fb, lo, hi, old) ==
  LET regErr == t - fb
      altErr1 == (t - lo) + (hi - fb)
      altErr2 == (hi - t) + (fb - lo)
      regErrAbs == AbsInt(regErr)
      altErr1Abs == AbsInt(altErr1)
      altErr2Abs == AbsInt(altErr2)
  IN  IF regErrAbs <= altErr1Abs /\ regErr <= altErr2Abs THEN regErr
      ELSE IF altErr1Abs < regErrAbs /\ altErr1Abs < altErr2Abs THEN altErr1Abs
      ELSE IF altErr2Abs < regErrAbs /\ altErr2Abs < altErr1Abs THEN altErr2Abs
      ELSE old

\* error (PID.cpp:72-117)
ComputeError(wrapped, t, fb, lo, hi, old) ==
  IF wrapped THEN WrappedError(t, fb, lo, hi, old) ELSE t - fb

\* int cycleIntegral = (lastError + error / 2) * deltaTime  (PID.cpp:129)
CycleIntegral(le, e, dt) == (le + TruncDiv(e, 2)) * dt

\* Prevent the integral cumulation from becoming huge (PID.cpp:148-149).
ClampCumulation(ic, max) ==
  LET a == IF ic > max THEN max ELSE ic
  IN  IF a < -max THEN -max ELSE a

\* output = (int)((error * _p) + (integralCumulation * _i) + (cycleDerivative * _d))
\* (PID.cpp:152)
ComputeOutput(e, ic, cd, p, i, d) == TruncDiv(e * p + ic * i + cd * d, GainDen)

\* Mutant of TrimOutput: the lower trim is missing.
TrimOutput_NoLowerTrim(o, bounded, lo, hi) ==
  IF bounded /\ o > hi THEN hi ELSE o

\* Trim the output to the bounds if needed (PID.cpp:159-163).
TrimOutput(o, bounded, lo, hi) ==
  IF ~bounded THEN o
  ELSE LET a == IF o > hi THEN hi ELSE o
       IN  IF a < lo THEN lo ELSE a

\* Values a read of the wrap bounds yields.
WrapLowerRead ==
  IF wrapBoundsWritten \/ ~feedbackWrapped THEN {feedbackWrapLowerBound} ELSE Garbage
WrapUpperRead ==
  IF wrapBoundsWritten \/ ~feedbackWrapped THEN {feedbackWrapUpperBound} ELSE Garbage

\* The body of tick() when enabled: fb is what _pidSource() returns, now what
\* _getSystemTime() returns, wl / wu the wrap bounds as read, q the quotient
\* of a division by zero.
TickEnabled(fb, now, wl, wu, q) ==
  LET cf == ClampInput(fb, inputBounded, inputLowerBound, inputUpperBound)
      e  == ComputeError(feedbackWrapped, target, cf, wl, wu, error)
      deltaTime == now - lastTime
      ic0 == IF timeFunctionRegistered
               THEN integralCumulation + CycleIntegral(lastError, e, deltaTime)
               ELSE integralCumulation + e
      cd == IF timeFunctionRegistered
              THEN (IF deltaTime = 0 THEN q ELSE TruncDiv(e - lastError, deltaTime))
              ELSE e - lastError
      ic == ClampCumulation(ic0, maxCumulation)
      o  == TrimOutput(ComputeOutput(e, ic, cd, _p, _i, _d),
                       outputBounded, outputLowerBound, outputUpperBound)
  IN  /\ currentFeedback' = cf
      /\ error' = e
      /\ currentTime' = IF timeFunctionRegistered THEN now ELSE currentTime
      /\ lastTime' = IF timeFunctionRegistered THEN now ELSE lastTime
      /\ integralCumulation' = ic
      /\ cycleDerivative' = cd
      /\ output' = o
      /\ lastFeedback' = cf
      /\ lastError' = e
      /\ pidOutputArg' = o                    \* _pidOutput(output)
      /\ UNCHANGED << _p, _i, _d, target, enabled, maxCumulation, inputBounded,
                      inputLowerBound, inputUpperBound, outputBounded,
                      outputLowerBound, outputUpperBound, feedbackWrapped,
                      feedbackWrapLowerBound, feedbackWrapUpperBound,
                      wrapBoundsWritten, timeFunctionRegistered >>

\* Times the registered source may return: non-decreasing, capped at MaxTime.
\* Without a registered source no time is read.
TimeReads == IF timeFunctionRegistered THEN lastTime .. MaxTime ELSE {0}

\* Quotients (error - lastError) / deltaTime may take when the time read is
\* now: only a zero deltaTime leaves a choice.
DivZeroReads(now) ==
  IF timeFunctionRegistered /\ now = lastTime THEN DivZeroResults ELSE {0}

\* PIDController<int>::tick
tick(fb) ==
  /\ IF enabled
       THEN \E now \in TimeReads, wl \in WrapLowerRead, wu \in WrapUpperRead :
              \E q \in DivZeroReads(now) :
                TickEnabled(fb, now, wl, wu, q)
       ELSE UNCHANGED pidVars
  /\ UNCHANGED buttonVars


(***************************************************************************)
(* The setters of PIDController<int>                                       *)
(***************************************************************************)
\* PIDController<int>::setTarget
setTarget(t) ==
  /\ target' = t
  /\ UNCHANGED << _p, _i, _d, output, enabled, currentFeedback, lastFeedback,
                  error, lastError, currentTime, lastTime, integralCumulation,
                  maxCumulation, cycleDerivative, inputBounded, inputLowerBound,
                  inputUpperBound, outputBounded, outputLowerBound,
                  outputUpperBound, feedbackWrapped, feedbackWrapLowerBound,
                  feedbackWrapUpperBound, wrapBoundsWritten,
                  timeFunctionRegistered, pidOutputArg >>
  /\ UNCHANGED buttonVars

\* Mutant of ResetOnDisable: disabling resets nothing.
ResetOnDisable_Keeps(e, was, old) == old

\* What setEnabled(e) leaves in a field it resets when disabling (PID.cpp:230-234).
ResetOnDisable(e, was, old) == IF ~e /\ was THEN 0 ELSE old

\* PIDController<int>::setEnabled
setEnabled(e) ==
  /\ output' = ResetOnDisable(e, enabled, output)
  /\ integralCumulation' = ResetOnDisable(e, enabled, integralCumulation)
  /\ enabled' = e
  /\ UNCHANGED << _p, _i, _d, target, currentFeedback, lastFeedback, error,
                  lastError, currentTime, lastTime, maxCumulation,
                  cycleDerivative, inputBounded, inputLowerBound,
                  inputUpperBound, outputBounded, outputLowerBound,
                  outputUpperBound, feedbackWrapped, feedbackWrapLowerBound,
                  feedbackWrapUpperBound, wrapBoundsWritten,
                  timeFunctionRegistered, pidOutputArg >>
  /\ UNCHANGED buttonVars

\* The values setMaxIntegralCumulation(max) may leave in maxCumulation
\* (PID.cpp:286-295).  For max = INT_MIN the negation overflows: the build
\* either wraps to INT_MIN and fails the max > 1 test (old is kept), or has
\* folded the two tests into |max| > 1 and stores the wrapped INT_MIN.
NewMaxCumulation(max, old) ==
  IF max = IntMin THEN {old, IntMin}
  ELSE LET m == IF max < 0 THEN -max ELSE max
       IN  IF m > 1 THEN {m} ELSE {old}

\* PIDController<int>::setMaxIntegralCumulation
setMaxIntegralCumulation(max) ==
  /\ maxCumulation' \in NewMaxCumulation(max, maxCumulation)
  /\ UNCHANGED << _p, _i, _d, target, output, enabled, currentFeedback,
                  lastFeedback, error, lastError, currentTime, lastTime,
                  integralCumulation, cycleDerivative, inputBounded,
                  inputLowerBound, inputUpperBound, outputBounded,
                  outputLowerBound, outputUpperBound, feedbackWrapped,
                  feedbackWrapLowerBound, feedbackWrapUpperBound,
                  wrapBoundsWritten, timeFunctionRegistered, pidOutputArg >>
  /\ UNCHANGED buttonVars

\* PIDController<int>::setInputBounded
setInputBounded(bounded) ==
  /\ inputBounded' = bounded
  /\ UNCHANGED << _p, _i, _d, target, output, enabled, currentFeedback,
                  lastFeedback, error, lastError, currentTime, lastTime,
                  integralCumulation, maxCumulation, cycleDerivative,
                  inputLowerBound, inputUpperBound, outputBounded,
                  outputLowerBound, outputUpperBound, feedbackWrapped,
                  feedbackWrapLowerBound, feedbackWrapUpperBound,
                  wrapBoundsWritten, timeFunctionRegistered, pidOutputArg >>
  /\ UNCHANGED buttonVars

\* Mutant of BoundsAccepted: an empty range upper = lower is accepted.
BoundsAccepted_NonStrict(lower, upper) == upper >= lower

\* The guard of setInputBounds and setOutputBounds (PID.cpp:350, 409).
BoundsAccepted(lower, upper) == upper > lower

\* The assignments of setInputBounds (PID.cpp:350-355).
InputBoundsUpdate(lower, upper) ==
  IF BoundsAccepted(lower, upper)
    THEN /\ inputBounded' = TRUE
         /\ inputUpperBound' = upper
         /\ inputLowerBound' = lower
    ELSE UNCHANGED << inputBounded, inputLowerBound, inputUpperBound >>

\* PIDController<int>::setInputBounds
setInputBounds(lower, upper) ==
  /\ InputBoundsUpdate(lower, upper)
  /\ UNCHANGED << _p, _i, _d, target, output, enabled, currentFeedback,
                  lastFeedback, error, lastError, currentTime, lastTime,
                  integralCumulation, maxCumulation, cycleDerivative,
                  outputBounded, outputLowerBound, outputUpperBound,
                  feedbackWrapped, feedbackWrapLowerBound,
                  feedbackWrapUpperBound, wrapBoundsWritten,
                  timeFunctionRegistered, pidOutputArg >>
  /\ UNCHANGED buttonVars

\* PIDController<int>::setOutputBounded
setOutputBounded(bounded) ==
  /\ outputBounded' = bounded
  /\ UNCHANGED << _p, _i, _d, target, output, enabled, currentFeedback,
                  lastFeedback, error, lastError, currentTime, lastTime,
                  integralCumulation, maxCumulation, cycleDerivative,
                  inputBounded, inputLowerBound, inputUpperBound,
                  outputLowerBound, outputUpperBound, feedbackWrapped,
                  feedbackWrapLowerBound, feedbackWrapUpperBound,
                  wrapBoundsWritten, timeFunctionRegistered, pidOutputArg >>
  /\ UNCHANGED buttonVars

\* PIDController<int>::setOutputBounds
setOutputBounds(lower, upper) ==
  /\ IF BoundsAccepted(lower, upper)
       THEN /\ outputBounded' = TRUE
            /\ outputLowerBound' = lower
            /\ outputUpperBound' = upper
       ELSE UNCHANGED << outputBounded, outputLowerBound, outputUpperBound >>
  /\ UNCHANGED << _p, _i, _d, target, output, enabled, currentFeedback,
                  lastFeedback, error, lastError, currentTime, lastTime,
                  integralCumulation, maxCumulation, cycleDerivative,
                  inputBounded, inputLowerBound, inputUpperBound,
                  feedbackWrapped, feedbackWrapLowerBound,
                  feedbackWrapUpperBound, wrapBoundsWritten,
                  timeFunctionRegistered, pidOutputArg >>
  /\ UNCHANGED buttonVars

\* PIDController<int>::setFeedbackWrapped
setFeedbackWrapped(wrapped) ==
  /\ feedbackWrapped' = wrapped
  /\ UNCHANGED << _p, _i, _d, target, output, enabled, currentFeedback,
                  lastFeedback, error, lastError, currentTime, lastTime,
                  integralCumulation, maxCumulation, cycleDerivative,
                  inputBounded, inputLowerBound, inputUpperBound, outputBounded,
                  outputLowerBound, outputUpperBound, feedbackWrapLowerBound,
                  feedbackWrapUpperBound, wrapBoundsWritten,
                  timeFunctionRegistered, pidOutputArg >>
  /\ UNCHANGED buttonVars

\* PIDController<int>::setFeedbackWrapBounds
setFeedbackWrapBounds(lower, upper) ==
  /\ InputBoundsUpdate(lower, upper)          \* setInputBounds(lower, upper)
  /\ feedbackWrapped' = TRUE
  /\ feedbackWrapLowerBound' = lower
  /\ feedbackWrapUpperBound' = upper
  /\ wrapBoundsWritten' = TRUE
  /\ UNCHANGED << _p, _i, _d, target, output, enabled, currentFeedback,
                  lastFeedback, error, lastError, currentTime, lastTime,
                  integralCumulation, maxCumulation, cycleDerivative,
                  outputBounded, outputLowerBound, outputUpperBound,
                  timeFunctionRegistered, pidOutputArg >>
  /\ UNCHANGED buttonVars

\* PIDController<int>::setPID
setPID(p, i, d) ==
  /\ _p' = p /\ _i' = i /\ _d' = d
  /\ UNCHANGED << target, output, enabled, currentFeedback, lastFeedback,
                  error, lastError, currentTime, lastTime, integralCumulation,
                  maxCumulation, cycleDerivative, inputBounded, inputLowerBound,
                  inputUpperBound, outputBounded, outputLowerBound,
                  outputUpperBound, feedbackWrapped, feedbackWrapLowerBound,
                  feedbackWrapUpperBound, wrapBoundsWritten,
                  timeFunctionRegistered, pidOutputArg >>
  /\ UNCHANGED buttonVars

\* PIDController<int>::setP
setP(p) ==
  /\ _p' = p
  /\ UNCHANGED << _i, _d, target, output, enabled, currentFeedback, lastFeedback,
                  error, lastError, currentTime, lastTime, integralCumulation,
                  maxCumulation, cycleDerivative, inputBounded, inputLowerBound,
                  inputUpperBound, outputBounded, outputLowerBound,
                  outputUpperBound, feedbackWrapped, feedbackWrapLowerBound,
                  feedbackWrapUpperBound, wrapBoundsWritten,
                  timeFunctionRegistered, pidOutputArg >>
  /\ UNCHANGED buttonVars

\* PIDController<int>::setI
setI(i) ==
  /\ _i' = i
  /\ UNCHANGED << _p, _d, target, output, enabled, currentFeedback, lastFeedback,
                  error, lastError, currentTime, lastTime, integralCumulation,
                  maxCumulation, cycleDerivative, inputBounded, inputLowerBound,
                  inputUpperBound, outputBounded, outputLowerBound,
                  outputUpperBound, feedbackWrapped, feedbackWrapLowerBound,
                  feedbackWrapUpperBound, wrapBoundsWritten,
                  timeFunctionRegistered, pidOutputArg >>
  /\ UNCHANGED buttonVars

\* PIDController<int>::setD
setD(d) ==
  /\ _d' = d
  /\ UNCHANGED << _p, _i, target, output, enabled, currentFeedback, lastFeedback,
                  error, lastError, currentTime, lastTime, integralCumulation,
                  maxCumulation, cycleDerivative, inputBounded, inputLowerBound,
                  inputUpperBound, outputBounded, outputLowerBound,
                  outputUpperBound, feedbackWrapped, feedbackWrapLowerBound,
                  feedbackWrapUpperBound, wrapBoundsWritten,
                  timeFunctionRegistered, pidOutputArg >>
  /\ UNCHANGED buttonVars

\* PIDController<int>::registerTimeFunction
registerTimeFunction ==
  /\ timeFunctionRegistered' = TRUE
  /\ UNCHANGED << _p, _i, _d, target, output, enabled, currentFeedback,
                  lastFeedback, error, lastError, currentTime, lastTime,
                  integralCumulation, maxCumulation, cycleDerivative,
                  inputBounded, inputLowerBound, inputUpperBound, outputBounded,
                  outputLowerBound, outputUpperBound, feedbackWrapped,
                  feedbackWrapLowerBound, feedbackWrapUpperBound,
                  wrapBoundsWritten, pidOutputArg >>
  /\ UNCHANGED buttonVars

(***************************************************************************)
(* eventHandler.c                                                          *)
(***************************************************************************)
SetpointFlags == 80          \* 0x50
ModeChangeFlags == 105       \* 0x69
DebounceTicks == 300

\* osEventFlagsSet ORs the given flags into the group: bitwise or of two
\* non-negative numbers.
RECURSIVE BitOr(_, _)
BitOr(a, b) ==
  IF a = 0 THEN b
  ELSE IF b = 0 THEN a
  ELSE (IF a % 2 = 1 \/ b % 2 = 1 THEN 1 ELSE 0) + 2 * BitOr(a \div 2, b \div 2)

\* Tick values HAL_GetTick is observed at.
Ticks ==
  { u * 150 + o : u \in 0 .. MaxTickUnits, o \in {-1, 0, 1, 2} } \cap Nat

\* Mutants of DebounceElapsed: a threshold of 30, and >= for >.
DebounceElapsed_Short(cur, prev) == cur - prev > 30
DebounceElapsed_AtLeast(cur, prev) == cur - prev >= DebounceTicks

\* if (cur_time - prev_time > 300)  (eventHandler.c:17).  The operands are
\* uint32_t; the tick source is non-decreasing here, so cur >= prev and the
\* unsigned difference is the plain difference.
DebounceElapsed(cur, prev) == cur - prev > DebounceTicks

\* Mutant of NewPrevTime: the baseline moves only when the signal is raised.
NewPrevTime_OnRaiseOnly(cur, prev) == IF DebounceElapsed(cur, prev) THEN cur ELSE prev

\* prev_time = cur_time  (eventHandler.c:21)
NewPrevTime(cur, prev) == cur

\* setpointButtons
setpointButtons ==
  /\ setPointButtonEvents' = BitOr(setPointButtonEvents, SetpointFlags)
  /\ UNCHANGED << prev_time, cur_time, stateMachineEvents, modeLog >>
  /\ UNCHANGED pidVars

\* modeChangeButton, with t the value HAL_GetTick() returns
modeChangeButton(t) ==
  /\ Len(modeLog) < MaxCalls
  /\ t >= cur_time            \* the tick source never runs backwards
  /\ cur_time' = t
  /\ stateMachineEvents' =
       IF DebounceElapsed(t, prev_time)
         THEN BitOr(stateMachineEvents, ModeChangeFlags)
         ELSE stateMachineEvents
  /\ modeLog' = Append(modeLog,
                  << t, IF DebounceElapsed(t, prev_time) THEN ModeChangeFlags ELSE 0 >>)
  /\ prev_time' = NewPrevTime(t, prev_time)
  /\ UNCHANGED setPointButtonEvents
  /\ UNCHANGED pidVars

\* eventHandler.c:5-6 and the event groups before any flag is set.  cur_time
\* has static storage, so it starts at 0.
ButtonInit ==
  /\ prev_time = 0
  /\ cur_time = 0
  /\ setPointButtonEvents = 0
  /\ stateMachineEvents = 0
  /\ modeLog = << >>

(***************************************************************************)
(* Specifications                                                          *)
(***************************************************************************)
Init ==
  /\ \E g \in GainTriples : PIDController(g[1], g[2], g[3])
  /\ ButtonInit

\* The control loop: ticks with or without a time source, enabling and
\* disabling, and the setters of the target, the gains, the cumulation limit
\* and the output bounds.
Next ==
  \/ \E fb \in Feedbacks : tick(fb)
  \/ \E t \in Targets : setTarget(t)
  \/ \E e \in BOOLEAN : setEnabled(e)
  \/ \E m \in MaxArgs : setMaxIntegralCumulation(m)
  \/ \E b \in BOOLEAN : setOutputBounded(b)
  \/ \E b \in OutputBoundPairs : setOutputBounds(b[1], b[2])
  \/ \E g \in GainTriples : setPID(g[1], g[2], g[3])
  \/ registerTimeFunction

Spec == Init /\ [][Next]_vars

\* Ticks under any configuration of the input bounds and the feedback wrap.
NextBounds ==
  \/ \E fb \in Feedbacks : tick(fb)
  \/ \E t \in Targets : setTarget(t)
  \/ \E e \in BOOLEAN : setEnabled(e)
  \/ \E b \in BOOLEAN : setInputBounded(b)
  \/ \E b \in InputBoundPairs : setInputBounds(b[1], b[2])
  \/ \E b \in BOOLEAN : setFeedbackWrapped(b)
  \/ \E b \in WrapBoundPairs : setFeedbackWrapBounds(b[1], b[2])

SpecBounds == Init /\ [][NextBounds]_vars

\* Any sequence of setter calls on a controller that is not ticked.
\* (setPIDSource and setPIDOutput only replace the two callbacks, whose
\* results are arbitrary here already; the getters change nothing.)
NextSetters ==
  \/ \E t \in Targets : setTarget(t)
  \/ \E e \in BOOLEAN : setEnabled(e)
  \/ \E m \in MaxArgsWide : setMaxIntegralCumulation(m)
  \/ \E b \in BOOLEAN : setInputBounded(b)
  \/ \E b \in InputBoundPairs : setInputBounds(b[1], b[2])
  \/ \E b \in BOOLEAN : setOutputBounded(b)
  \/ \E b \in OutputBoundPairs : setOutputBounds(b[1], b[2])
  \/ \E b \in BOOLEAN : setFeedbackWrapped(b)
  \/ \E b \in WrapBoundPairs : setFeedbackWrapBounds(b[1], b[2])
  \/ \E g \in GainTriples : setPID(g[1], g[2], g[3])
  \/ \E g \in GainValues : setP(g)
  \/ \E g \in GainValues : setI(g)
  \/ \E g \in GainValues : setD(g)
  \/ registerTimeFunction

SpecSetters == Init /\ [][NextSetters]_vars

\* The compass example of PID.cpp:437-445: wrap bounds [0, 360], target 5 and
\* feedback 355.  Ticks are explored while the cumulation is within
\* CumulationCap of zero.
Targets360 == {5, 355}
Feedbacks360 == {5, 355, 400}
WrapBoundPairs360 == { <<0, 360>> }

Next360 ==
  \/ /\ -CumulationCap <= integralCumulation
     /\ integralCumulation <= CumulationCap
     /\ \E fb \in Feedbacks360 : tick(fb)
  \/ \E t \in Targets360 : setTarget(t)
  \/ \E b \in BOOLEAN : setFeedbackWrapped(b)
  \/ \E b \in WrapBoundPairs360 : setFeedbackWrapBounds(b[1], b[2])

SpecWrap360 == Init /\ [][Next360]_vars

\* Any sequence of button interrupts.
NextButtons ==
  \/ setpointButtons
  \/ \E t \in Ticks : modeChangeButton(t)

SpecButtons == Init /\ [][NextButtons]_vars


(***************************************************************************)
(* Properties                                                              *)
(***************************************************************************)
\* A step that is an enabled tick.
EnabledTick == enabled /\ \E fb \in Feedbacks : tick(fb)

OutputWithinBounds == outputLowerBound <= output /\ output <= outputUpperBound

\* C1 (as stated): in every reachable state, if outputBounded then
\* outputLowerBound <= output <= outputUpperBound.
C1_OutputAlwaysWithinBounds == outputBounded => OutputWithinBounds

\* C1 (amended): right after every tick that runs on an enabled controller,
\* if outputBounded then outputLowerBound <= output <= outputUpperBound, and
\* that is the value handed to the output sink.
C1_TickOutputWithinBounds ==
  [][ EnabledTick =>
        /\ outputBounded' => OutputWithinBounds'
        /\ pidOutputArg' = output' ]_vars

\* A tick has trimmed a larger output down to the upper bound 100.
C1_Witness ==
  /\ enabled /\ outputBounded
  /\ outputLowerBound = -100 /\ outputUpperBound = 100
  /\ output = 100 /\ pidOutputArg = 100 /\ error > 200

\* C2: in every reachable state
\* -maxCumulation <= integralCumulation <= maxCumulation.
C2_CumulationWithinMax ==
  -maxCumulation <= integralCumulation /\ integralCumulation <= maxCumulation

\* C3: setEnabled(false) on an enabled controller leaves output = 0 and
\* integralCumulation = 0, and once both are 0 every step that is not an
\* enabled tick (setEnabled(true) among them) leaves both at 0.
C3_DisableResets ==
  [][ /\ (enabled /\ ~enabled') => (output' = 0 /\ integralCumulation' = 0)
      /\ (output = 0 /\ integralCumulation = 0 /\ ~EnabledTick)
           => (output' = 0 /\ integralCumulation' = 0) ]_vars

\* The controller delivered a non-zero output, was disabled and is enabled
\* again with no tick since: output and cumulation are 0.
C3_Witness ==
  /\ enabled /\ pidOutputArg # 0 /\ lastError # 0
  /\ output = 0 /\ integralCumulation = 0


\* ---- modeChangeButton ----
Raised(k) == modeLog[k][2] = ModeChangeFlags
TickAt(k) == modeLog[k][1]

\* C4: no two raises of 0x69 are less than 300 ticks apart.
C4_RaisesAtLeast300Apart ==
  \A j \in 1 .. Len(modeLog) : \A k \in 1 .. Len(modeLog) :
    (j < k /\ Raised(j) /\ Raised(k)) => TickAt(k) - TickAt(j) >= DebounceTicks

\* Two raises with a suppressed invocation between them.
C4_Witness ==
  /\ Len(modeLog) = 3
  /\ Raised(1) /\ ~Raised(2) /\ Raised(3)
  /\ stateMachineEvents = ModeChangeFlags /\ prev_time = TickAt(3)

\* Invocations k, k+1, k+2 at t1 < t2 < t3, the first raising 0x69, with
\* t2 - t1 < 300, t3 - t1 > 300 and t3 - t2 <= 300.
RapidThenLate(k) ==
  /\ k + 2 <= Len(modeLog)
  /\ Raised(k)
  /\ TickAt(k) < TickAt(k + 1) /\ TickAt(k + 1) < TickAt(k + 2)
  /\ TickAt(k + 1) - TickAt(k) < DebounceTicks
  /\ TickAt(k + 2) - TickAt(k) > DebounceTicks
  /\ TickAt(k + 2) - TickAt(k + 1) <= DebounceTicks

\* C5 (as stated): in that case the second invocation raises no signal and
\* the third raises 0x69 again.
C5_ThirdRaisesAgain ==
  \A k \in 1 .. Len(modeLog) :
    RapidThenLate(k) => (~Raised(k + 1) /\ Raised(k + 2))

\* C5 (amended): in that case neither the second nor the third invocation
\* raises a signal, the third being within 300 ticks of the second.
C5_ThirdSuppressed ==
  \A k \in 1 .. Len(modeLog) :
    RapidThenLate(k) => (modeLog[k + 1][2] = 0 /\ modeLog[k + 2][2] = 0)

\* Three invocations of that shape have happened.
C5_Witness == Len(modeLog) = 3 /\ RapidThenLate(1) /\ prev_time = TickAt(3)

\* C6 (as stated): the very first invocation raises 0x69 whatever the tick.
C6_FirstAlwaysRaises == Len(modeLog) >= 1 => Raised(1)

\* C6 (amended): the very first invocation raises 0x69 exactly when the tick
\* it reads is greater than 300, and raises nothing otherwise.
C6_FirstRaisesIffPast300 ==
  Len(modeLog) >= 1 =>
    IF TickAt(1) > DebounceTicks THEN Raised(1) ELSE modeLog[1][2] = 0

\* The first invocation came at tick 300, the largest one that is suppressed.
C6_Witness ==
  /\ Len(modeLog) = 1 /\ TickAt(1) = DebounceTicks /\ ~Raised(1)
  /\ stateMachineEvents = 0 /\ prev_time = DebounceTicks


\* ---- bound setters ----
InvertedPairs ==
  { b \in InputBoundPairs \cup OutputBoundPairs \cup WrapBoundPairs : b[2] <= b[1] }

InputConfig == << inputBounded, inputLowerBound, inputUpperBound >>
OutputConfig == << outputBounded, outputLowerBound, outputUpperBound >>
WrapConfig ==
  << feedbackWrapped, feedbackWrapLowerBound, feedbackWrapUpperBound, wrapBoundsWritten >>

\* C7 (as stated): a call of setInputBounds, setOutputBounds or
\* setFeedbackWrapBounds with upper <= lower changes neither the flag nor the
\* stored bounds it is about.
C7_InvertedBoundsIgnored ==
  [][ \A b \in InvertedPairs :
        /\ setInputBounds(b[1], b[2]) => UNCHANGED InputConfig
        /\ setOutputBounds(b[1], b[2]) => UNCHANGED OutputConfig
        /\ setFeedbackWrapBounds(b[1], b[2]) => UNCHANGED << WrapConfig, InputConfig >>
    ]_vars

\* C7 (amended): setInputBounds and setOutputBounds with upper <= lower
\* change neither their flag nor their stored bounds; setFeedbackWrapBounds
\* with upper <= lower leaves the input-bound flag and bounds unchanged, but
\* still sets feedbackWrapped and stores the two wrap bounds as given.
C7_InvertedBoundsHandling ==
  [][ \A b \in InvertedPairs :
        /\ setInputBounds(b[1], b[2]) => UNCHANGED InputConfig
        /\ setOutputBounds(b[1], b[2]) => UNCHANGED OutputConfig
        /\ setFeedbackWrapBounds(b[1], b[2]) =>
             /\ UNCHANGED InputConfig
             /\ feedbackWrapped'
             /\ feedbackWrapLowerBound' = b[1]
             /\ feedbackWrapUpperBound' = b[2]
    ]_vars

\* Valid input and output bounds are stored, and an inverted pair has been
\* given to setFeedbackWrapBounds.
C7_Witness ==
  /\ inputBounded /\ inputLowerBound = 0 /\ inputUpperBound = 10000
  /\ outputBounded /\ outputLowerBound = -100 /\ outputUpperBound = 100
  /\ feedbackWrapped /\ wrapBoundsWritten
  /\ feedbackWrapLowerBound = 20000 /\ feedbackWrapUpperBound = 0

\* C10: maxCumulation is always greater than 1; setMaxIntegralCumulation(m)
\* leaves it unchanged when |m| <= 1 and sets it to |m| otherwise.
C10_MaxCumulationRule ==
  [][ \A m \in MaxArgsWide :
        setMaxIntegralCumulation(m) =>
          /\ maxCumulation' > 1
          /\ IF -1 <= m /\ m <= 1 THEN maxCumulation' = maxCumulation
             ELSE IF m > 0 THEN maxCumulation' = m
             ELSE maxCumulation' > 0 /\ maxCumulation' + m = 0
    ]_vars

\* ---- feedback wrap ----
\* C9: once setFeedbackWrapBounds has been called, every enabled tick that
\* runs with feedbackWrapped computes the error from a currentFeedback within
\* [feedbackWrapLowerBound, feedbackWrapUpperBound].
C9_FeedbackWithinWrapBounds ==
  [][ (EnabledTick /\ feedbackWrapped /\ wrapBoundsWritten) =>
        /\ feedbackWrapLowerBound <= currentFeedback'
        /\ currentFeedback' <= feedbackWrapUpperBound ]_vars

\* C8: with wrap bounds [0, 360], a tick with target 5 and feedback 355
\* leaves error = -10.
C8_SeamErrorIsMinus10 ==
  [][ ( /\ enabled /\ feedbackWrapped /\ wrapBoundsWritten
        /\ feedbackWrapLowerBound = 0 /\ feedbackWrapUpperBound = 360
        /\ target = 5
        /\ tick(355) ) => error' = -10 ]_vars

====
